---- MODULE Spec2Model ----
(***************************************************************************)
(* Model of debug_float_error.py: a diagnostic script that loads one row   *)
(* of an e-mail table into the dict email_data, tries the unguarded        *)
(* email_data.get(field, "").strip() on three fields, and then applies     *)
(* the proposed fix safe_strip to the same fields.                         *)
(*                                                                         *)
(* Python values are tagged records; a text value carries its characters   *)
(* as a sequence of one-character strings.  A call's outcome is either a   *)
(* returned value or a raised exception.                                   *)
(***************************************************************************)
EXTENDS Integers, Sequences, FiniteSets, TLC

VARIABLES email_data, pc, attempt, fixed, value, ret, ret2

vars == <<email_data, pc, attempt, fixed, value, ret, ret2>>

(***************************************************************************)
(* Bounds of the model.                                                    *)
(***************************************************************************)
\* longest generated text argument of a single safe_strip call
MaxLen == 3
\* largest magnitude of a numeric argument of a single safe_strip call
MaxInt == 42
\* longest generated text cell of the email_data record
MaxFieldLen == 2
\* largest magnitude of a numeric cell of the email_data record
MaxFieldInt == 1

(***************************************************************************)
(* Python values.                                                          *)
(***************************************************************************)
None == [tag |-> "NoneType"]

NaN == [tag |-> "nan"]

Str(s) == [tag |-> "str", s |-> s]

Int_(n) == [tag |-> "int", n |-> n]

Bool(b) == [tag |-> "bool", b |-> b]

\* a finite float with an integral value (the only floats generated here)
Float(n) == [tag |-> "float", f |-> n]

\* characters str.strip() with no argument removes (str.isspace)
Whitespace == {" ", "\t", "\n", "\r", "\f"}

\* characters of the generated text cells
Alphabet == {" ", "\t", "a"}

Fields == {"subject", "body", "sender_email"}

\* what a call has produced: nothing yet, a value, or an exception
Unset == [kind |-> "unset"]

Return(v) == [kind |-> "return", val |-> v]

Raise(e) == [kind |-> "raise", exc |-> e]

(***************************************************************************)
(* str.strip(): drop leading and trailing whitespace, keep the interior.   *)
(***************************************************************************)
RECURSIVE LStrip(_)
LStrip(s) ==
    IF s = <<>> \/ Head(s) \notin Whitespace THEN s ELSE LStrip(Tail(s))

RECURSIVE RStrip(_)
RStrip(s) ==
    IF s = <<>> \/ s[Len(s)] \notin Whitespace
    THEN s
    ELSE RStrip(SubSeq(s, 1, Len(s) - 1))

strip_LeftOnly(s) == LStrip(s)

strip_RightOnly(s) == RStrip(s)

\* removes at most one whitespace character at each end
strip_Once(s) ==
    LET l == IF s # <<>> /\ Head(s) \in Whitespace THEN Tail(s) ELSE s
    IN  IF l # <<>> /\ l[Len(l)] \in Whitespace
        THEN SubSeq(l, 1, Len(l) - 1)
        ELSE l

strip(s) == RStrip(LStrip(s))

\* value.strip(): only text values have the method
StripMethod(v) ==
    IF v.tag = "str" THEN Return(Str(strip(v.s))) ELSE Raise("AttributeError")

(***************************************************************************)
(* str(value): the canonical text of a value.                              *)
(***************************************************************************)
Digit(d) == <<"0", "1", "2", "3", "4", "5", "6", "7", "8", "9">>[d + 1]

RECURSIVE NatToStr(_)
NatToStr(n) ==
    IF n < 10 THEN <<Digit(n)>> ELSE NatToStr(n \div 10) \o <<Digit(n % 10)>>

IntToStr(n) == IF n < 0 THEN <<"-">> \o NatToStr(-n) ELSE NatToStr(n)

\* a boolean printed as the integer it is a subclass of
str_BoolAsInt(v) ==
    CASE v.tag = "str" -> v
      [] v.tag = "int" -> Str(IntToStr(v.n))
      [] v.tag = "bool" -> Str(IF v.b THEN <<"1">> ELSE <<"0">>)
      [] v.tag = "float" -> Str(IntToStr(v.f) \o <<".", "0">>)
      [] v.tag = "nan" -> Str(<<"n", "a", "n">>)
      [] v.tag = "NoneType" -> Str(<<"N", "o", "n", "e">>)

str(v) ==
    CASE v.tag = "str" -> v
      [] v.tag = "int" -> Str(IntToStr(v.n))
      [] v.tag = "bool" ->
            Str(IF v.b THEN <<"T", "r", "u", "e">> ELSE <<"F", "a", "l", "s", "e">>)
      [] v.tag = "float" -> Str(IntToStr(v.f) \o <<".", "0">>)
      [] v.tag = "nan" -> Str(<<"n", "a", "n">>)
      [] v.tag = "NoneType" -> Str(<<"N", "o", "n", "e">>)

(***************************************************************************)
(* safe_strip and the unguarded access it replaces.                        *)
(***************************************************************************)
\* pd.isna on a scalar
pd_isna(v) == v.tag \in {"nan", "NoneType"}

\* the unguarded code applied to the argument
safe_strip_Unguarded(v) == StripMethod(v)

\* the absence check dropped
safe_strip_NoNaCheck(v) == StripMethod(str(v))

\* an absent value handed back as it came
safe_strip_PassAbsent(v) ==
    IF pd_isna(v) \/ v = None THEN Return(v) ELSE StripMethod(str(v))

safe_strip(v) ==
    IF pd_isna(v) \/ v = None THEN Return(Str(<<>>)) ELSE StripMethod(str(v))

\* the default also standing in for an absent cell
Get_DefaultForAbsent(d, key, default) ==
    IF key \in DOMAIN d /\ ~pd_isna(d[key]) THEN d[key] ELSE default

\* dict.get(key, default)
Get(d, key, default) == IF key \in DOMAIN d THEN d[key] ELSE default

\* email_data.get(field, "").strip()
UnfixedStrip(d, field) == StripMethod(Get(d, field, Str(<<>>)))

(***************************************************************************)
(* Input domains.                                                          *)
(***************************************************************************)
SeqsUpTo(S, n) == UNION {[1..k -> S] : k \in 0..n}

TextSamples ==
    { <<" ", " ", "h", "e", "l", "l", "o", " ", "w", "o", "r", "l", "d", " ", " ">>,
      <<"n", "a", "n">>,
      <<"N", "o", "n", "e">>,
      <<"\n", "4", "2", "\r">> }

AbsenceMarkers == {None, NaN}

Scalars(len, maxint) ==
    {Str(s) : s \in SeqsUpTo(Alphabet, len)}
        \cup AbsenceMarkers
        \cup {Int_(n) : n \in (-maxint)..maxint}
        \cup {Bool(b) : b \in BOOLEAN}
        \cup {Float(n) : n \in (-maxint)..maxint}

\* arguments of a single safe_strip call
Value == Scalars(MaxLen, MaxInt) \cup {Str(s) : s \in TextSamples}

\* cells of the loaded row
FieldValue == Scalars(MaxFieldLen, MaxFieldInt)

(***************************************************************************)
(* The normalizer on its own: one argument, one call, and a second call    *)
(* on the first call's result.                                             *)
(***************************************************************************)
NormInit ==
    /\ value \in Value
    /\ ret = Unset
    /\ ret2 = Unset
    /\ email_data = <<>>
    /\ pc = "call"
    /\ attempt = [f \in Fields |-> Unset]
    /\ fixed = [f \in Fields |-> Unset]

Normalize ==
    /\ pc = "call"
    /\ ret = Unset
    /\ ret' = safe_strip(value)
    /\ UNCHANGED <<email_data, pc, attempt, fixed, value, ret2>>

Renormalize ==
    /\ pc = "call"
    /\ ret.kind = "return"
    /\ ret2 = Unset
    /\ ret2' = safe_strip(ret.val)
    /\ UNCHANGED <<email_data, pc, attempt, fixed, value, ret>>

NormNext == Normalize \/ Renormalize

NormSpec == NormInit /\ [][NormNext]_vars

(***************************************************************************)
(* The script, from the loaded row to its last line.                       *)
(***************************************************************************)
\* rows the table can yield: a column may be missing, a cell may hold any
\* scalar
Rows == UNION {[D -> FieldValue] : D \in SUBSET Fields}

Init ==
    /\ email_data \in Rows
    /\ pc = "print_types"
    /\ attempt = [f \in Fields |-> Unset]
    /\ fixed = [f \in Fields |-> Unset]
    /\ value = Unset
    /\ ret = Unset
    /\ ret2 = Unset

\* the three type lines index the row directly: a missing column is an
\* uncaught KeyError
PrintTypes ==
    /\ pc = "print_types"
    /\ pc' = IF Fields \subseteq DOMAIN email_data THEN "try_subject" ELSE "crashed"
    /\ UNCHANGED <<email_data, attempt, fixed, value, ret, ret2>>

\* the attempt with no try around it: an exception ends the script
TryStrip_Unguarded(f, here, next) ==
    /\ pc = here
    /\ attempt' = [attempt EXCEPT ![f] = UnfixedStrip(email_data, f)]
    /\ pc' = IF attempt'[f].kind = "raise" THEN "crashed" ELSE next
    /\ UNCHANGED <<email_data, fixed, value, ret, ret2>>

\* try: <f> = email_data.get(f, "").strip() except Exception: report it
TryStrip(f, here, next) ==
    /\ pc = here
    /\ attempt' = [attempt EXCEPT ![f] = UnfixedStrip(email_data, f)]
    /\ pc' = next
    /\ UNCHANGED <<email_data, fixed, value, ret, ret2>>

TrySubject == TryStrip("subject", "try_subject", "try_body")

TryBody == TryStrip("body", "try_body", "try_sender_email")

TrySenderEmail == TryStrip("sender_email", "try_sender_email", "fix_sender_email")

\* the call normalizing the cell in place
CallSafeStrip_InPlace(f) ==
    /\ fixed' = [fixed EXCEPT ![f] = safe_strip(email_data[f])]
    /\ email_data' =
          IF fixed'[f].kind = "return"
          THEN [email_data EXCEPT ![f] = fixed'[f].val]
          ELSE email_data
    /\ UNCHANGED <<attempt, value, ret, ret2>>

\* safe_strip(email_data[f]), its result handed to print
CallSafeStrip(f) ==
    /\ fixed' = [fixed EXCEPT ![f] = safe_strip(email_data[f])]
    /\ UNCHANGED <<email_data, attempt, value, ret, ret2>>

\* one line of the fix demonstration; nothing catches an exception here
FixStrip(f, here, next) ==
    /\ pc = here
    /\ CallSafeStrip(f)
    /\ pc' = IF fixed'[f].kind = "return" THEN next ELSE "crashed"

FixSenderEmail == FixStrip("sender_email", "fix_sender_email", "fix_subject")

FixSubject == FixStrip("subject", "fix_subject", "fix_body")

FixBody == FixStrip("body", "fix_body", "done")

Next ==
    \/ PrintTypes
    \/ TrySubject
    \/ TryBody
    \/ TrySenderEmail
    \/ FixSenderEmail
    \/ FixSubject
    \/ FixBody

Spec == Init /\ [][Next]_vars

\* the interpreter executes the next statement of a running script
FairSpec == Spec /\ WF_vars(Next)

(***************************************************************************)
(* safe_strip called on the fields of one row in any order, any number of  *)
(* times.                                                                  *)
(***************************************************************************)
OrderInit ==
    /\ email_data \in [Fields -> FieldValue]
    /\ pc = "calls"
    /\ attempt = [f \in Fields |-> Unset]
    /\ fixed = [f \in Fields |-> Unset]
    /\ value = Unset
    /\ ret = Unset
    /\ ret2 = Unset

NormalizeField(f) ==
    /\ pc = "calls"
    /\ CallSafeStrip(f)
    /\ UNCHANGED pc

OrderNext == \E f \in Fields : NormalizeField(f)

OrderSpec == OrderInit /\ [][OrderNext]_vars

(***************************************************************************)
(* Properties of a single safe_strip call (checked under NormSpec).        *)
(***************************************************************************)
IsText(o) == o.kind = "return" /\ o.val.tag = "str"

\* C1: for every input (text, absence marker, other scalar) safe_strip
\* raises nothing and returns a text value, never an absence marker and
\* never a non-text scalar.
C1_AlwaysText == ret # Unset => IsText(ret)

C1_Witness ==
    /\ value \in AbsenceMarkers \cup {Int_(5), Bool(TRUE)}
    /\ IsText(ret)

\* C2: for every absence marker (None, NaN) safe_strip returns "".
C2_AbsentIsEmpty ==
    (value \in AbsenceMarkers /\ ret # Unset) => ret = Return(Str(<<>>))

C2_Witness == value = NaN /\ ret = Return(Str(<<>>))

\* r is s without its leading and trailing whitespace, interior unchanged
IsStripOf(r, s) ==
    \E i \in 1..(Len(s) + 1), j \in 0..Len(s) :
        /\ r = SubSeq(s, i, j)
        /\ \A k \in 1..(i - 1) : s[k] \in Whitespace
        /\ \A k \in (j + 1)..Len(s) : s[k] \in Whitespace
        /\ r # <<>> => (r[1] \notin Whitespace /\ r[Len(r)] \notin Whitespace)

HelloWorldPadded ==
    <<" ", " ", "h", "e", "l", "l", "o", " ", "w", "o", "r", "l", "d", " ", " ">>

HelloWorld == <<"h", "e", "l", "l", "o", " ", "w", "o", "r", "l", "d">>

\* C3: for every text value s, safe_strip(s) is s with all leading and
\* trailing whitespace removed and the interior unchanged; a text value
\* (also "nan", "None", "") is never taken for an absence marker.
C3_TextIsStripped ==
    (value.tag = "str" /\ ret # Unset) =>
        /\ IsText(ret)
        /\ IsStripOf(ret.val.s, value.s)
        /\ value.s = HelloWorldPadded => ret.val.s = HelloWorld
        /\ value.s = <<"n", "a", "n">> => ret.val.s = <<"n", "a", "n">>

C3_Witness == value = Str(HelloWorldPadded) /\ ret = Return(Str(HelloWorld))

DigitChars == {"0", "1", "2", "3", "4", "5", "6", "7", "8", "9"}

DigitValue(c) ==
    CASE c = "0" -> 0 [] c = "1" -> 1 [] c = "2" -> 2 [] c = "3" -> 3
      [] c = "4" -> 4 [] c = "5" -> 5 [] c = "6" -> 6 [] c = "7" -> 7
      [] c = "8" -> 8 [] c = "9" -> 9

RECURSIVE DecimalValue(_)
DecimalValue(r) ==
    IF r = <<>>
    THEN 0
    ELSE 10 * DecimalValue(SubSeq(r, 1, Len(r) - 1)) + DigitValue(r[Len(r)])

\* r is the decimal numeral of the natural number n, without leading zeros
IsNumeral(r, n) ==
    /\ r # <<>>
    /\ \A k \in 1..Len(r) : r[k] \in DigitChars
    /\ Len(r) > 1 => r[1] # "0"
    /\ DecimalValue(r) = n

\* r is the canonical text of the integer n
IsIntText(r, n) ==
    IF n < 0
    THEN r # <<>> /\ Head(r) = "-" /\ IsNumeral(Tail(r), -n)
    ELSE IsNumeral(r, n)

\* C4: for every non-text scalar x that is no absence marker, safe_strip(x)
\* is the canonical text of x, stripped: 42 gives "42", 5 gives "5", True
\* gives "True".
C4_ScalarIsCanonicalText ==
    (value.tag \in {"int", "bool", "float"} /\ ret # Unset) =>
        /\ IsText(ret)
        /\ value.tag = "int" => IsIntText(ret.val.s, value.n)
        /\ value = Int_(42) => ret.val.s = <<"4", "2">>
        /\ value = Int_(5) => ret.val.s = <<"5">>
        /\ value = Bool(TRUE) => ret.val.s = <<"T", "r", "u", "e">>
        /\ value = Bool(FALSE) => ret.val.s = <<"F", "a", "l", "s", "e">>
        /\ value.tag = "float" =>
              /\ Len(ret.val.s) > 2
              /\ SubSeq(ret.val.s, Len(ret.val.s) - 1, Len(ret.val.s)) = <<".", "0">>
              /\ IsIntText(SubSeq(ret.val.s, 1, Len(ret.val.s) - 2), value.f)

C4_Witness == value = Int_(42) /\ ret = Return(Str(<<"4", "2">>))

\* C5: safe_strip is idempotent: applied to its own result it returns that
\* result again, for every input.
C5_Idempotent == ret2 # Unset => ret2 = ret

C5_Witness ==
    /\ value = Str(<<" ", " ", "a">>)
    /\ ret = Return(Str(<<"a">>))
    /\ ret2 = ret

\* C10: every value safe_strip returns is a text value with no leading and
\* no trailing whitespace character; a whitespace-only input gives "", the
\* same result as an absence marker.
C10_NoOuterWhitespace ==
    ret # Unset =>
        /\ IsText(ret)
        /\ ret.val.s # <<>> =>
              /\ Head(ret.val.s) \notin Whitespace
              /\ ret.val.s[Len(ret.val.s)] \notin Whitespace
        /\ (value.tag = "str" /\ \A k \in 1..Len(value.s) : value.s[k] \in Whitespace)
              => ret.val.s = <<>>

C10_Witness ==
    /\ value = Str(<<" ", "\t">>)
    /\ ret = Return(Str(<<>>))
    /\ safe_strip(NaN) = ret

(***************************************************************************)
(* Properties of the calls on a row (checked under OrderSpec).             *)
(***************************************************************************)
\* C6: a safe_strip call has no side effects and calls are independent: the
\* row and the argument stay as they are, a result once obtained is what
\* every later call on that field gives, whatever was called in between,
\* and fields holding the same value get the same result.
C6_NoSideEffects ==
    [][ /\ email_data' = email_data
        /\ \A f \in Fields : fixed[f] # Unset => fixed'[f] = fixed[f]
        /\ \A f, g \in Fields :
              (email_data[f] = email_data[g] /\ fixed'[f] # Unset /\ fixed'[g] # Unset)
                  => fixed'[f] = fixed'[g]
      ]_vars

C6_Witness ==
    /\ email_data["sender_email"] = NaN
    /\ email_data["subject"] = Str(<<" ">>)
    /\ email_data["body"] = email_data["subject"]
    /\ \A f \in Fields : fixed[f] = Return(Str(<<>>))

\* C7: a missing field and a present-but-empty field are normalized to the
\* same result, so the result does not tell them apart.
C7_MissingEqualsEmpty ==
    \A f, g \in Fields :
        ( /\ email_data[f] \in AbsenceMarkers
          /\ email_data[g] = Str(<<>>)
          /\ fixed[f] # Unset
          /\ fixed[g] # Unset ) => fixed[f] = fixed[g]

C7_Witness ==
    /\ email_data["sender_email"] = NaN
    /\ email_data["subject"] = Str(<<>>)
    /\ email_data["body"] = None
    /\ fixed["sender_email"] = fixed["subject"]
    /\ fixed["body"] = fixed["subject"]
    /\ fixed["subject"] # Unset

(***************************************************************************)
(* Properties of the script (checked under Spec and FairSpec).             *)
(***************************************************************************)
\* C8: the unguarded email_data.get(field, "").strip() fails exactly when
\* the field is present and holds a non-text value (the "" default applies
\* only to a missing key), returns the stripped text for a text value, and
\* for a NaN field safe_strip returns "" where the unguarded access failed.
C8_UnfixedFailsOnNonText ==
    \A f \in Fields :
        LET o == UnfixedStrip(email_data, f)
            present == f \in DOMAIN email_data
        IN  /\ (o.kind = "raise") <=> (present /\ email_data[f].tag # "str")
            /\ (present /\ email_data[f].tag = "str") =>
                  (IsText(o) /\ IsStripOf(o.val.s, email_data[f].s))
            /\ attempt[f] # Unset =>
                  /\ attempt[f] = o
                  /\ (attempt[f].kind = "raise") <=> (email_data[f].tag # "str")
            /\ (present /\ email_data[f] = NaN /\ fixed[f] # Unset) =>
                  (attempt[f].kind = "raise" /\ fixed[f] = Return(Str(<<>>)))

C8_Witness ==
    /\ Fields \subseteq DOMAIN email_data
    /\ email_data["sender_email"] = NaN
    /\ email_data["subject"] = Str(<<" ">>)
    /\ attempt["subject"] = Return(Str(<<>>))
    /\ attempt["sender_email"] = Raise("AttributeError")
    /\ fixed["sender_email"] = Return(Str(<<>>))

Attempted(f) == attempt[f] # Unset

Fixed(f) == fixed[f] # Unset

\* the attempts run subject, body, sender_email, then the fixes run
\* sender_email, subject, body
InOrder ==
    /\ Attempted("body") => Attempted("subject")
    /\ Attempted("sender_email") => Attempted("body")
    /\ Fixed("sender_email") => Attempted("sender_email")
    /\ Fixed("subject") => Fixed("sender_email")
    /\ Fixed("body") => Fixed("subject")

Demonstrated ==
    /\ pc = "done"
    /\ \A f \in Fields : Attempted(f) /\ IsText(fixed[f])

\* C9: once the field types are printed the script always reaches the fix
\* demonstration: the attempts run in order, a failed attempt is caught and
\* stops neither the later attempts nor the safe_strip calls on the three
\* fields, whichever fields hold an absence marker.
C9_ReachesFix ==
    /\ []InOrder
    /\ (pc = "try_subject") ~> Demonstrated

C9_Witness ==
    /\ pc = "done"
    /\ \A f \in Fields :
          /\ email_data[f] \in AbsenceMarkers
          /\ attempt[f].kind = "raise"
          /\ fixed[f] = Return(Str(<<>>))

====
